---- MODULE Spec2Model ----
(***************************************************************************)
(* Model of scripts/scrape_observer.py: one scheduled process that fetches *)
(* a page, extracts result rows from its text nodes, and overwrites        *)
(* data/results.json and data/results.csv.                                 *)
(*                                                                         *)
(* A text is a sequence of one-character strings, so substring tests,      *)
(* strip, split, replace and the CSV dialect are computed character by     *)
(* character.  A document is the sequence of its text nodes in document    *)
(* order (what BeautifulSoup yields for the markup).                       *)
(***************************************************************************)
EXTENDS Integers, Sequences, FiniteSets, TLC

VARIABLES pc, imported, dirExists, requests, html, anchor, rows, exc,
          jsonFile, csvFile, written, exitCode, stdout, stderr, clock, runs

vars == <<pc, imported, dirExists, requests, html, anchor, rows, exc,
          jsonFile, csvFile, written, exitCode, stdout, stderr, clock,
          runs>>

\* ------------------------------------------------------------ bounds
\* Process invocations in one behaviour.
MaxRuns == 2
\* Seconds the wall clock can advance.
MaxClock == 1
\* Text nodes in a document given to parse_rows on its own.
MaxNodes == 4
\* Rows in a row sequence given to write_artifacts on its own.
MaxRows == 2

\* --------------------------------------------------------- constants
URL == "https://election.jamaicaobserver.com/2025/"

FIELDS ==
  <<"constituency", "parish", "candidate", "party",
    "votes", "percent", "status", "boxes">>

\* The characters of each field name (what the CSV header is made of).
FieldText ==
  [constituency |-> <<"c","o","n","s","t","i","t","u","e","n","c","y">>,
   parish       |-> <<"p","a","r","i","s","h">>,
   candidate    |-> <<"c","a","n","d","i","d","a","t","e">>,
   party        |-> <<"p","a","r","t","y">>,
   votes        |-> <<"v","o","t","e","s">>,
   percent      |-> <<"p","e","r","c","e","n","t">>,
   status       |-> <<"s","t","a","t","u","s">>,
   boxes        |-> <<"b","o","x","e","s">>]

anchors ==
  << <<"D","e","t","a","i","l","e","d"," ","R","e","s","u","l","t","s"," ",
       "b","y"," ","C","o","n","s","t","i","t","u","e","n","c","y">>,
     <<"C","o","n","s","t","i","t","u","e","n","c","y"," ",
       "R","e","s","u","l","t","s">> >>

\* "(c)" stands for the one character U+00A9.
stop_markers ==
  << <<"F","o","l","l","o","w"," ","U","s">>,
     <<"C","o","n","n","e","c","t"," ","W","i","t","h"," ","U","s">>,
     <<"M","o","b","i","l","e"," ","A","p","p","s">>,
     <<"(c)">> >>

status_tokens ==
  << <<"N","o","t"," ","S","t","a","r","t","e","d">>,
     <<"C","o","u","n","t","i","n","g">>,
     <<"D","e","c","l","a","r","e","d">> >>

\* The separator of s.split("  ").
TwoSpaces == <<" ", " ">>

\* len(parts) >= 8
MinParts == 8

\* Characters str.strip() removes.
Whitespace == {" ", "\n", "\t"}

\* ------------------------------------------------------ str methods
\* sub in s
Contains(s, sub) ==
  \E i \in 0..(Len(s) - Len(sub)) : SubSeq(s, i + 1, i + Len(sub)) = sub

\* Index of the first occurrence of sub in s, 0 when there is none.
FindFirst(s, sub) ==
  LET hits == {i \in 1..(Len(s) - Len(sub) + 1) :
                 SubSeq(s, i, i + Len(sub) - 1) = sub}
  IN  IF hits = {} THEN 0 ELSE CHOOSE i \in hits : \A j \in hits : i <= j

\* s.strip()
Strip(s) ==
  LET keep == {i \in 1..Len(s) : s[i] \notin Whitespace}
  IN  IF keep = {} THEN <<>>
      ELSE SubSeq(s, CHOOSE i \in keep : \A j \in keep : i <= j,
                     CHOOSE i \in keep : \A j \in keep : i >= j)

RECURSIVE Split(_, _)
\* s.split(sep) for a non-empty sep: left to right, non-overlapping, empty
\* pieces kept.
Split(s, sep) ==
  LET i == FindFirst(s, sep)
  IN  IF i = 0 THEN <<s>>
      ELSE <<SubSeq(s, 1, i - 1)>> \o Split(SubSeq(s, i + Len(sep), Len(s)), sep)

RECURSIVE Replace(_, _, _)
\* s.replace(old, new) for a non-empty old.
Replace(s, old, new) ==
  LET i == FindFirst(s, old)
  IN  IF i = 0 THEN s
      ELSE SubSeq(s, 1, i - 1) \o new
             \o Replace(SubSeq(s, i + Len(old), Len(s)), old, new)

RECURSIVE Join(_, _)
\* sep.join(parts)
Join(parts, sep) ==
  IF parts = <<>> THEN <<>>
  ELSE IF Len(parts) = 1 THEN parts[1]
  ELSE parts[1] \o sep \o Join(Tail(parts), sep)

\* any(x in s for x in needles)
ContainsAny(s, needles) ==
  \E k \in DOMAIN needles : Contains(s, needles[k])

\* ------------------------------------------------------- parse_rows
\* soup.find(string=lambda s: isinstance(s, str) and label in s): the index
\* of the first text node containing label, 0 for None.
FindLabel(doc, label) ==
  LET hits == {i \in DOMAIN doc : Contains(doc[i], label)}
  IN  IF hits = {} THEN 0 ELSE CHOOSE i \in hits : \A j \in hits : i <= j

\* Mutation of FindAnchor: the first node containing either phrase.
FindAnchorEitherPhrase(doc) ==
  LET hits == {i \in DOMAIN doc : ContainsAny(doc[i], anchors)}
  IN  IF hits = {} THEN 0 ELSE CHOOSE i \in hits : \A j \in hits : i <= j

\* for label in anchors: anchor = soup.find(...); if anchor: break
FindAnchor(doc) ==
  IF FindLabel(doc, anchors[1]) # 0 THEN FindLabel(doc, anchors[1])
  ELSE FindLabel(doc, anchors[2])

\* Mutation of IsStop: the last marker of the tuple is not looked for.
IsStopThreeMarkers(s) ==
  ContainsAny(s, SubSeq(stop_markers, 1, Len(stop_markers) - 1))

\* any(m in s for m in stop_markers)
IsStop(s) == ContainsAny(s, stop_markers)

\* any(tok in s for tok in status_tokens)
HasStatus(s) == ContainsAny(s, status_tokens)

\* [p for p in s.split("  ") if p]
Parts(s) == SelectSeq(Split(s, TwoSpaces), LAMBDA p : p # <<>>)

\* Mutation of MakeRow: "%" is stripped from the end of percent only.
MakeRowTrailingPercent(parts) ==
  [constituency |-> parts[1], parish |-> parts[2], candidate |-> parts[3],
   party |-> parts[4], votes |-> parts[5],
   percent |-> IF parts[6] # <<>> /\ parts[6][Len(parts[6])] = "%"
               THEN SubSeq(parts[6], 1, Len(parts[6]) - 1) ELSE parts[6],
   status |-> parts[7], boxes |-> parts[8]]

\* The dict appended to rows.
MakeRow(parts) ==
  [constituency |-> parts[1], parish |-> parts[2], candidate |-> parts[3],
   party |-> parts[4], votes |-> parts[5],
   percent |-> Replace(parts[6], <<"%">>, <<>>),
   status |-> parts[7], boxes |-> parts[8]]

\* len(parts) >= 8
EnoughParts(parts) == Len(parts) >= MinParts

RECURSIVE Walk(_, _, _)
\* for node in anchor.find_all_next(text=True): ... from node i on, acc the
\* rows appended so far.
Walk(doc, i, acc) ==
  IF i > Len(doc) THEN acc
  ELSE LET s == Strip(doc[i])
       IN  IF s = <<>> THEN Walk(doc, i + 1, acc)
           ELSE IF IsStop(s) THEN acc
           ELSE IF HasStatus(s) /\ EnoughParts(Parts(s))
                THEN Walk(doc, i + 1, Append(acc, MakeRow(Parts(s))))
           ELSE Walk(doc, i + 1, acc)

\* parse_rows(html), html given as its text nodes.
parse_rows(doc) ==
  IF FindAnchor(doc) = 0 THEN <<>> ELSE Walk(doc, FindAnchor(doc) + 1, <<>>)

\* -------------------------------------------------- write_artifacts
\* r.get(k, "")
RowGet(r, k) == IF k \in DOMAIN r THEN r[k] ELSE <<>>

\* {k: r.get(k, "") for k in FIELDS}, in fieldnames order.
RowValues(r) == [i \in DOMAIN FIELDS |-> RowGet(r, FIELDS[i])]

\* The characters that make csv.writer (excel dialect, QUOTE_MINIMAL) quote.
CsvSpecial == {",", "\"", "\r", "\n"}

\* Mutation of CsvField: fields are written as they are.
CsvFieldRaw(f) == f

\* One field as csv.writer writes it.
CsvField(f) ==
  IF \E i \in DOMAIN f : f[i] \in CsvSpecial
  THEN <<"\"">> \o Replace(f, <<"\"">>, <<"\"", "\"">>) \o <<"\"">>
  ELSE f

\* w.writerow / w.writeheader: one record and its line terminator.
CsvRecord(fields) ==
  Join([i \in DOMAIN fields |-> CsvField(fields[i])], <<",">>) \o <<"\r", "\n">>

RECURSIVE CsvRecords(_)
\* for r in rows: w.writerow({k: r.get(k, "") for k in FIELDS})
CsvRecords(rs) ==
  IF rs = <<>> THEN <<>>
  ELSE CsvRecord(RowValues(Head(rs))) \o CsvRecords(Tail(rs))

\* w.writeheader()
CsvHeader == CsvRecord([i \in DOMAIN FIELDS |-> FieldText[FIELDS[i]]])

\* The text of results.csv for rows.
CsvText(rs) == CsvHeader \o CsvRecords(rs)

\* Mutation of SuccessPayload: the error key is always written.
SuccessPayloadWithError(ts, rs) ==
  << <<"source", URL>>, <<"fetched_at", ts>>, <<"rows", rs>>,
     <<"error", "">> >>

\* payload = {"source": URL, "fetched_at": ts, "rows": rows}, in key order.
SuccessPayload(ts, rs) ==
  << <<"source", URL>>, <<"fetched_at", ts>>, <<"rows", rs>> >>

\* {"source": URL, "fetched_at": ts, "rows": [], "error": str(e)}
FailurePayload(ts, msg) ==
  << <<"source", URL>>, <<"fetched_at", ts>>, <<"rows", <<>> >>,
     <<"error", msg>> >>

\* ------------------------------------------------------ environment
\* str(e) of what requests.get / raise_for_status raises.
FetchErrors == {"timeout", "503 Server Error"}

\* str(e) of what BeautifulSoup(html, "lxml") raises without the lxml parser.
ParseErrors == {"FeatureNotFound"}

\* Where a write to data/ raises OSError: not at all, opening results.json,
\* or opening results.csv.
IoFaults == {"none", "json", "csv"}

Sep(frags) == Join(frags, TwoSpaces)

\* The text node of the spec's end-to-end scenario.
NodeEastKingston ==
  Sep(<< <<"E","a","s","t"," ","K","i","n","g","s","t","o","n">>,
         <<"K","i","n","g","s","t","o","n">>,
         <<"J","a","n","e"," ","D","o","e">>,
         <<"P","N","P">>, <<"1","2","3","4","5">>, <<"5","5",".","2","%">>,
         <<"D","e","c","l","a","r","e","d">>, <<"4","2">> >>)

NodeWestPortland ==
  Sep(<< <<"W","e","s","t"," ","P","o","r","t","l","a","n","d">>,
         <<"P","o","r","t","l","a","n","d">>,
         <<"R","o","e",","," ","J","o","h","n">>,
         <<"J","L","P">>, <<"0">>, <<"0","%">>,
         <<"N","o","t"," ","S","t","a","r","t","e","d">>, <<"0">> >>)

NodeCopyright == <<"(c)", " ", "2", "0", "2", "5">>

\* Pages the site serves to a scheduled run.
Pages ==
  { << <<"L","o","a","d","i","n","g">> >>,
    << anchors[2], NodeEastKingston, NodeCopyright, NodeWestPortland >>,
    << anchors[1], NodeWestPortland, NodeEastKingston >>,
    << anchors[1], <<"R","e","s","u","l","t","s"," ","p","e","n","d","i","n","g">> >> }

\* ----------------------------------------------------------- process
Init ==
  /\ pc = "idle"
  /\ imported = FALSE
  /\ dirExists = FALSE
  /\ requests = 0
  /\ html = <<>>
  /\ anchor = 0
  /\ rows = <<>>
  /\ exc = <<>>
  /\ jsonFile = <<>>
  /\ csvFile = <<>>
  /\ written = {}
  /\ exitCode = 0
  /\ stdout = <<>>
  /\ stderr = <<>>
  /\ clock = 0
  /\ runs = 0

\* Mutation of AfterMissingDeps: the guard reports and lets the script go on.
AfterMissingDepsGoesOn == "main"

\* sys.exit(1) in the import guard.
AfterMissingDeps == "exited"

\* The scheduler starts the process; nothing of the previous process is left
\* but the files.
Invoke ==
  /\ pc \in {"idle", "exited"}
  /\ runs < MaxRuns
  /\ runs' = runs + 1
  /\ pc' = "startup"
  /\ imported' = FALSE
  /\ requests' = 0
  /\ html' = <<>>
  /\ anchor' = 0
  /\ rows' = <<>>
  /\ exc' = <<>>
  /\ written' = {}
  /\ exitCode' = 0
  /\ stdout' = <<>>
  /\ stderr' = <<>>
  /\ UNCHANGED <<dirExists, jsonFile, csvFile, clock>>

\* Module level: the guarded imports, then OUTDIR.mkdir(parents=True,
\* exist_ok=True).
Startup ==
  /\ pc = "startup"
  /\ \E depsOk \in BOOLEAN, mkdirOk \in BOOLEAN :
       IF ~depsOk
       THEN /\ imported' = FALSE
            /\ stderr' = <<"Missing deps">>
            /\ exitCode' = 1
            /\ pc' = AfterMissingDeps
            /\ UNCHANGED dirExists
       ELSE IF ~mkdirOk /\ ~dirExists
       THEN /\ imported' = TRUE
            /\ stderr' = <<"Traceback">>
            /\ exitCode' = 1
            /\ pc' = "exited"
            /\ UNCHANGED dirExists
       ELSE /\ imported' = TRUE
            /\ dirExists' = TRUE
            /\ pc' = "main"
            /\ UNCHANGED <<stderr, exitCode>>
  /\ UNCHANGED <<requests, html, anchor, rows, exc, jsonFile, csvFile,
                 written, stdout, clock, runs>>

\* main: html = fetch_html(URL)
Fetch ==
  /\ pc = "main"
  /\ requests' = requests + 1
  /\ \/ \E msg \in FetchErrors :
          /\ exc' = <<msg>>
          /\ pc' = "caught"
          /\ UNCHANGED html
     \/ \E page \in Pages :
          /\ html' = page
          /\ pc' = "fetched"
          /\ UNCHANGED exc
  /\ UNCHANGED <<imported, dirExists, anchor, rows, jsonFile, csvFile,
                 written, exitCode, stdout, stderr, clock, runs>>

\* main: rows = parse_rows(html)
Parse ==
  /\ pc = "fetched"
  /\ \/ \E msg \in ParseErrors :
          /\ exc' = <<msg>>
          /\ pc' = "caught"
          /\ UNCHANGED <<anchor, rows>>
     \/ /\ anchor' = FindAnchor(html)
        /\ rows' = parse_rows(html)
        /\ pc' = "parsed"
        /\ UNCHANGED exc
  /\ UNCHANGED <<imported, dirExists, requests, html, jsonFile, csvFile,
                 written, exitCode, stdout, stderr, clock, runs>>

\* An uncaught OSError: traceback on stderr, exit status 1.
Crash ==
  /\ stderr' = <<"Traceback">>
  /\ exitCode' = 1
  /\ pc' = "exited"
  /\ UNCHANGED stdout

\* Both files of a snapshot, or as far as the io fault lets the writes get.
WriteFiles(io, payload, rs) ==
  /\ jsonFile' = IF io = "json" THEN jsonFile ELSE payload
  /\ csvFile' = IF io = "none" THEN CsvText(rs) ELSE csvFile
  /\ written' = IF io = "json" THEN written
                ELSE IF io = "csv" THEN written \cup {"results.json"}
                ELSE written \cup {"results.json", "results.csv"}

\* main: the except branch.
HandleError ==
  /\ pc = "caught"
  /\ \E io \in IoFaults :
       /\ WriteFiles(io, FailurePayload(clock, exc[1]), <<>>)
       /\ IF io = "none"
          THEN /\ stdout' = <<"Error", exc[1]>>
               /\ exitCode' = 0
               /\ pc' = "exited"
               /\ UNCHANGED stderr
          ELSE Crash
  /\ UNCHANGED <<imported, dirExists, requests, html, anchor, rows, exc,
                 clock, runs>>

\* main: write_artifacts(rows); return 0
WriteArtifacts ==
  /\ pc = "parsed"
  /\ \E io \in IoFaults :
       /\ WriteFiles(io, SuccessPayload(clock, rows), rows)
       /\ IF io = "none"
          THEN /\ stdout' = <<"Saved", Len(rows), clock>>
               /\ exitCode' = 0
               /\ pc' = "exited"
               /\ UNCHANGED stderr
          ELSE Crash
  /\ UNCHANGED <<imported, dirExists, requests, html, anchor, rows, exc,
                 clock, runs>>

\* time.gmtime(): the wall clock, in whole seconds.
Tick ==
  /\ clock < MaxClock
  /\ clock' = clock + 1
  /\ UNCHANGED <<pc, imported, dirExists, requests, html, anchor, rows, exc,
                 jsonFile, csvFile, written, exitCode, stdout, stderr, runs>>

Next ==
  \/ Invoke
  \/ Startup
  \/ Fetch
  \/ Parse
  \/ HandleError
  \/ WriteArtifacts
  \/ Tick

Spec == Init /\ [][Next]_vars

\* ------------------------------------------- parse_rows on its own
SeqsUpTo(S, n) == UNION {[1..k -> S] : k \in 0..n}

\* Text nodes that exercise each branch of the walk.
\* Eight parts and a status token, with white space around the node.
NodeRow8 ==
  <<"\n", " ">>
    \o Sep(<< <<"a">>, <<"b">>, <<"c">>, <<"d">>, <<"1">>, <<"5", "%">>,
              <<"D","e","c","l","a","r","e","d">>, <<"4">> >>)
    \o <<" ", "\n">>

\* Nine parts, three spaces after the first, "%" on both sides of percent.
NodeRow9 ==
  <<"e", " ">>
    \o Sep(<< <<>>, <<"f">>, <<"g">>, <<"h">>, <<"2">>, <<"%", "6", "%">>,
              <<"C","o","u","n","t","i","n","g">>, <<"7">>, <<"z">> >>)

\* Seven parts and a status token; the trailing blanks would make an eighth
\* part if the node were not stripped.
NodeRow7 ==
  Sep(<< <<"a">>, <<"b">>, <<"c">>, <<"d">>, <<"1">>,
         <<"N","o","t"," ","S","t","a","r","t","e","d">>, <<"4">> >>)
    \o <<" ", " ", " ">>

\* Eight parts, no status token.
NodePlain8 ==
  Sep(<< <<"a">>, <<"b">>, <<"c">>, <<"d">>, <<"1">>, <<"5", "%">>,
         <<"x">>, <<"4">> >>)

\* Eight parts, a status token and a stop marker.
NodeStopRow ==
  Sep(<< <<"a">>, <<"b">>, <<"c">>, <<"d">>, <<"1">>, <<"5", "%">>,
         <<"D","e","c","l","a","r","e","d">>, <<"(c)">> >>)

\* The first anchor phrase in a node that has eight parts and a status token.
NodeAnchorRow ==
  Sep(<< anchors[1], <<"b">>, <<"c">>, <<"d">>, <<"1">>, <<"5", "%">>,
         <<"C","o","u","n","t","i","n","g">>, <<"4">> >>)

SampleNodes ==
  { NodeRow8, NodeRow9, NodeRow7, NodePlain8, NodeStopRow, NodeAnchorRow,
    anchors[1], anchors[2], stop_markers[1], <<" ", "\n">> }

\* parse_rows is about to be called on any document of sample nodes.
InitParse ==
  /\ pc = "fetched"
  /\ imported = TRUE
  /\ dirExists = TRUE
  /\ requests = 1
  /\ html \in SeqsUpTo(SampleNodes, MaxNodes)
  /\ anchor = 0
  /\ rows = <<>>
  /\ exc = <<>>
  /\ jsonFile = <<>>
  /\ csvFile = <<>>
  /\ written = {}
  /\ exitCode = 0
  /\ stdout = <<>>
  /\ stderr = <<>>
  /\ clock = 0
  /\ runs = 1

NextParse == Parse

SpecParse == InitParse /\ [][NextParse]_vars

\* --------------------------------------- write_artifacts on its own
\* Rows as a caller may pass them: all keys, keys absent, a key outside
\* FIELDS; values with the characters the CSV dialect quotes.
SampleRows ==
  { MakeRow(Parts(NodeWestPortland)),
    [constituency |-> <<"a", "\"", "b">>, parish |-> <<"x", "\n", "y">>,
     votes |-> <<"\r">>],
    [status |-> <<"D","e","c","l","a","r","e","d">>, boxes |-> <<" ", "4">>,
     notes |-> <<"n", ",">>],
    [candidate |-> <<>>] }

\* write_artifacts is about to be called on any sequence of sample rows.
InitCsv ==
  /\ pc = "parsed"
  /\ imported = TRUE
  /\ dirExists = TRUE
  /\ requests = 0
  /\ html = <<>>
  /\ anchor = 0
  /\ rows \in SeqsUpTo(SampleRows, MaxRows)
  /\ exc = <<>>
  /\ jsonFile = <<>>
  /\ csvFile = <<>>
  /\ written = {}
  /\ exitCode = 0
  /\ stdout = <<>>
  /\ stderr = <<>>
  /\ clock = 0
  /\ runs = 1

NextCsv ==
  \/ WriteArtifacts
  \/ Tick

SpecCsv == InitCsv /\ [][NextCsv]_vars

\* ------------------------------------------------------ observations
\* What a reader of the documents and files sees, stated without the
\* operators of parse_rows.
Min(S) == CHOOSE i \in S : \A j \in S : i <= j

\* The k-th smallest element of a set of numbers.
Nth(S, k) == CHOOSE i \in S : Cardinality({j \in S : j < i}) = k - 1

NodesWith(doc, phrase) == {i \in DOMAIN doc : Contains(doc[i], phrase)}

\* A text node containing one of the four stop markers.
StopNode(n) ==
  \/ Contains(n, <<"F","o","l","l","o","w"," ","U","s">>)
  \/ Contains(n, <<"C","o","n","n","e","c","t"," ","W","i","t","h"," ","U","s">>)
  \/ Contains(n, <<"M","o","b","i","l","e"," ","A","p","p","s">>)
  \/ Contains(n, <<"(c)">>)

\* A text node containing one of the three status tokens.
TokenNode(n) ==
  \/ Contains(n, <<"N","o","t"," ","S","t","a","r","t","e","d">>)
  \/ Contains(n, <<"C","o","u","n","t","i","n","g">>)
  \/ Contains(n, <<"D","e","c","l","a","r","e","d">>)

\* The non-empty fragments of the trimmed node text between two-space
\* separators.
Fragments(n) ==
  LET pieces == Split(Strip(n), <<" ", " ">>)
  IN  SelectSeq(pieces, LAMBDA f : Len(f) > 0)

\* A node the row rule matches.
RowNode(n) == TokenNode(n) /\ Len(Fragments(n)) >= 8

\* The row the claim describes for a node the row rule matches.
RowOf(n) ==
  LET f == Fragments(n)
  IN  [constituency |-> f[1], parish |-> f[2], candidate |-> f[3],
       party |-> f[4], votes |-> f[5],
       percent |-> SelectSeq(f[6], LAMBDA c : c # "%"),
       status |-> f[7], boxes |-> f[8]]

\* The first stop-marker node after node a, Len(doc) + 1 when there is none.
FirstStopAfter(doc, a) ==
  LET stops == {j \in (a + 1)..Len(doc) : StopNode(doc[j])}
  IN  IF stops = {} THEN Len(doc) + 1 ELSE Min(stops)

\* The nodes after the anchor and before the first stop marker that the row
\* rule matches.
Contributing(doc, a) ==
  {i \in (a + 1)..(FirstStopAfter(doc, a) - 1) : RowNode(doc[i])}

\* The first index from p on whose character is in chars, Len(t) + 1 when
\* there is none.
NextOf(t, p, chars) ==
  LET hits == {j \in p..Len(t) : t[j] \in chars}
  IN  IF hits = {} THEN Len(t) + 1 ELSE Min(hits)

\* The quote closing the quoted field opened at i: the first quote after i
\* that ends a run of an odd number of quotes (a pair of quotes is one quote
\* of the value); Len(t) + 1 when the field is never closed.
ClosingQuote(t, i) ==
  LET hits == {j \in (i + 1)..Len(t) :
                 /\ t[j] = "\""
                 /\ j = Len(t) \/ t[j + 1] # "\""
                 /\ Cardinality({k \in (i + 1)..j : t[k] = "\""}) % 2 = 1}
  IN  IF hits = {} THEN Len(t) + 1 ELSE Min(hits)

\* The index after the field starting at i: that of its delimiter or line
\* end, Len(t) + 1 at the end of the text.
FieldEnd(t, i) ==
  IF i <= Len(t) /\ t[i] = "\""
  THEN NextOf(t, ClosingQuote(t, i) + 1, {",", "\r", "\n"})
  ELSE NextOf(t, i, {",", "\r", "\n"})

\* The value of the field starting at i, as csv.reader (excel dialect, not
\* strict) reads it: a quoted part with its doubled quotes undone, then what
\* follows the closing quote as it is.
FieldValue(t, i) ==
  IF i <= Len(t) /\ t[i] = "\""
  THEN Replace(SubSeq(t, i + 1, ClosingQuote(t, i) - 1),
               <<"\"", "\"">>, <<"\"">>)
         \o SubSeq(t, ClosingQuote(t, i) + 1, FieldEnd(t, i) - 1)
  ELSE SubSeq(t, i, FieldEnd(t, i) - 1)

\* The index after the line end at e: "\r\n" is one line end, and so is a
\* "\r" or a "\n" alone.
SkipLineEnd(t, e) ==
  IF e < Len(t) /\ t[e] = "\r" /\ t[e + 1] = "\n" THEN e + 2 ELSE e + 1

RECURSIVE CsvScan(_, _, _, _)
\* csv.reader over the text t with a field starting at i: rec the fields of
\* the current record so far, out the records read so far.  An empty line
\* reads as an empty record.
CsvScan(t, i, rec, out) ==
  IF i > Len(t)
  THEN IF rec = <<>> THEN out ELSE Append(out, Append(rec, <<>>))
  ELSE IF rec = <<>> /\ t[i] \in {"\r", "\n"}
  THEN CsvScan(t, SkipLineEnd(t, i), <<>>, Append(out, <<>>))
  ELSE LET e == FieldEnd(t, i)
           fields == Append(rec, FieldValue(t, i))
       IN  IF e <= Len(t) /\ t[e] = ","
           THEN CsvScan(t, e + 1, fields, out)
           ELSE CsvScan(t, SkipLineEnd(t, e), <<>>, Append(out, fields))

\* list(csv.reader(f)) for a file holding the text t.
CsvRead(t) == CsvScan(t, 1, <<>>, <<>>)

\* The header line of results.csv, character by character.
HeaderLine ==
  <<"c","o","n","s","t","i","t","u","e","n","c","y",",",
    "p","a","r","i","s","h",",",
    "c","a","n","d","i","d","a","t","e",",",
    "p","a","r","t","y",",",
    "v","o","t","e","s",",",
    "p","e","r","c","e","n","t",",",
    "s","t","a","t","u","s",",",
    "b","o","x","e","s","\r","\n">>

\* The header as a reader returns it.
HeaderRecord ==
  << <<"c","o","n","s","t","i","t","u","e","n","c","y">>,
     <<"p","a","r","i","s","h">>,
     <<"c","a","n","d","i","d","a","t","e">>,
     <<"p","a","r","t","y">>,
     <<"v","o","t","e","s">>,
     <<"p","e","r","c","e","n","t">>,
     <<"s","t","a","t","u","s">>,
     <<"b","o","x","e","s">> >>

\* The eight column names, in the fixed order.
Columns ==
  <<"constituency", "parish", "candidate", "party",
    "votes", "percent", "status", "boxes">>

\* What the data record of row r must read back as: its value for each of
\* the eight columns, the empty string for a key it lacks.
RecordOf(r) ==
  [k \in 1..8 |-> IF Columns[k] \in DOMAIN r THEN r[Columns[k]] ELSE <<>>]

\* The keys of a JSON object, and the value under one of them.
JsonKeys(j) == {j[i][1] : i \in DOMAIN j}

JsonGet(j, key) == j[CHOOSE i \in DOMAIN j : j[i][1] = key][2]

\* results.json holds a failure snapshot with this error message.
IsFailureSnapshot(j, msg) ==
  /\ JsonKeys(j) = {"source", "fetched_at", "rows", "error"}
  /\ JsonGet(j, "rows") = <<>>
  /\ JsonGet(j, "error") = msg

\* results.json holds a success snapshot with these rows.
IsSuccessSnapshot(j, rs) ==
  /\ JsonKeys(j) = {"source", "fetched_at", "rows"}
  /\ JsonGet(j, "rows") = rs

\* results.csv reads back as the header and one record per row of rs.
CsvHolds(t, rs) ==
  CsvRead(t) = <<HeaderRecord>> \o [i \in DOMAIN rs |-> RecordOf(rs[i])]

\* The process has ended after fetch or parse raised.
EndedAfterRaise == pc = "exited" /\ exc # <<>>

\* The process has ended after getting past the imports and the mkdir.
EndedPastStartup == pc = "exited" /\ imported /\ dirExists

\* ------------------------------------------------------------ claims
\* C6: once a text node after the anchor contains a stop marker, neither that
\* node nor any later node contributes a row: the rows are those of the
\* document cut off before that node, and there are no more of them than
\* there are nodes between the anchor and the stop node.
C6_StopMarkerEndsRows ==
  (pc = "parsed" /\ anchor > 0) =>
    \A j \in (anchor + 1)..Len(html) :
      StopNode(html[j]) =>
        /\ rows = parse_rows(SubSeq(html, 1, j - 1))
        /\ Len(rows) <= j - anchor - 1
        /\ Len(rows) = Cardinality(Contributing(SubSeq(html, 1, j - 1), anchor))

\* A row, then a stop-marker node that itself matches the row rule, then a
\* node that matches it too.
C6_Witness ==
  /\ pc = "parsed"
  /\ anchor > 0
  /\ rows # <<>>
  /\ \E j \in (anchor + 1)..Len(html) :
       /\ StopNode(html[j])
       /\ RowNode(html[j])
       /\ \E k \in (j + 1)..Len(html) : RowNode(html[k]) /\ ~StopNode(html[k])

\* C7: each node after the anchor and before the first stop-marker node
\* contributes exactly one row when it has a status token and at least 8
\* fragments, the row being the first 8 fragments in the fixed field order
\* with every "%" removed from percent; other nodes contribute nothing; rows
\* are in node order.
C7_RowsAreTheMatchingNodes ==
  (pc = "parsed" /\ anchor > 0) =>
    LET nodes == Contributing(html, anchor)
    IN  /\ Len(rows) = Cardinality(nodes)
        /\ \A k \in DOMAIN rows : rows[k] = RowOf(html[Nth(nodes, k)])

\* A node with exactly 8 fragments and a "%" contributes, a node with a
\* status token and fewer than 8 fragments before it does not.
C7_Witness ==
  /\ pc = "parsed"
  /\ anchor > 0
  /\ Len(rows) = 1
  /\ \E i \in Contributing(html, anchor) :
       /\ Len(Fragments(html[i])) = 8
       /\ Contains(Fragments(html[i])[6], <<"%">>)
       /\ \E j \in (anchor + 1)..(i - 1) :
            TokenNode(html[j]) /\ Len(Fragments(html[j])) < 8

\* C10: the anchor is the first node containing "Detailed Results by
\* Constituency" if there is one, else the first node containing
\* "Constituency Results"; rows come only from nodes after the anchor.
C10_AnchorByPhrasePriority ==
  pc = "parsed" =>
    LET first == NodesWith(html, anchors[1])
        second == NodesWith(html, anchors[2])
    IN  /\ anchor = IF first # {} THEN Min(first)
                    ELSE IF second # {} THEN Min(second) ELSE 0
        /\ Len(rows) <= Cardinality({i \in (anchor + 1)..Len(html) :
                                        RowNode(html[i])})
        /\ \A k \in DOMAIN rows :
             \E i \in (anchor + 1)..Len(html) :
               RowNode(html[i]) /\ rows[k] = RowOf(html[i])

\* "Constituency Results" occurs before "Detailed Results by Constituency",
\* and the anchor node itself matches the row rule.
C10_Witness ==
  /\ pc = "parsed"
  /\ NodesWith(html, anchors[1]) # {}
  /\ NodesWith(html, anchors[2]) # {}
  /\ Min(NodesWith(html, anchors[2])) < Min(NodesWith(html, anchors[1]))
  /\ RowNode(html[anchor])
  /\ rows # <<>>

\* C9: re-reading the results.csv written for N rows yields the fixed header
\* and exactly N data records in the original order, each of exactly the
\* eight columns, a key absent from a row read back as the empty string and a
\* key outside the eight producing no column; for N = 0 the file is the
\* header line alone.
C9_CsvRoundTrip ==
  "results.csv" \in written =>
    LET records == CsvRead(csvFile)
    IN  /\ Len(records) = Len(rows) + 1
        /\ records[1] = HeaderRecord
        /\ \A i \in DOMAIN rows :
             /\ Len(records[i + 1]) = 8
             /\ records[i + 1] = RecordOf(rows[i])
        /\ rows = <<>> => csvFile = HeaderLine

\* Two rows written, one lacking a key, one with a key outside the eight,
\* one with a value the dialect has to quote.
C9_Witness ==
  /\ "results.csv" \in written
  /\ Len(rows) = 2
  /\ \E i \in DOMAIN rows : "percent" \notin DOMAIN rows[i]
  /\ \E i \in DOMAIN rows : "notes" \in DOMAIN rows[i]
  /\ \E i \in DOMAIN rows : \E k \in DOMAIN rows[i] :
       Contains(rows[i][k], <<",">>) \/ Contains(rows[i][k], <<"\n">>)

\* C1: in every run in which fetch or parse raises, results.json is written
\* with rows [] and the exception's message under error, results.csv is the
\* header line alone, and the exit status is 0.
C1_RaiseGivesFailureSnapshot ==
  EndedAfterRaise =>
    /\ exitCode = 0
    /\ IsFailureSnapshot(jsonFile, exc[1])
    /\ csvFile = HeaderLine

\* C2: every run that gets past startup ends with exit status 0, whatever
\* happens in fetch, parse or persist.
C2_PastStartupExitsZero ==
  EndedPastStartup => exitCode = 0

\* C3: once a run has completed, results.json and results.csv both hold the
\* snapshot of that run, and nothing of an earlier run.  (Stated for the runs
\* that leave both files in place.)
C3_FilesHoldLatestRun ==
  (pc = "exited" /\ jsonFile # <<>> /\ csvFile # <<>>) =>
    /\ IF exc # <<>> THEN IsFailureSnapshot(jsonFile, exc[1])
       ELSE IsSuccessSnapshot(jsonFile, rows)
    /\ CsvHolds(csvFile, rows)

C5_ErrorKeyOnlyOnFailure ==
  "results.json" \in written =>
    /\ {"source", "fetched_at"} \subseteq JsonKeys(jsonFile)
    /\ "error" \in JsonKeys(jsonFile) <=> exc # <<>>

\* A success snapshot with zero rows, written after an anchor was found.
C5_Witness ==
  /\ "results.json" \in written
  /\ exc = <<>>
  /\ anchor > 0
  /\ JsonGet(jsonFile, "rows") = <<>>
  /\ "error" \notin JsonKeys(jsonFile)

\* C8: for a fetched document in which no text node contains an anchor
\* phrase, the run is a success: a snapshot with rows [] and no error field,
\* a header-only CSV, exit status 0.  (Stated for the runs in which parse_rows
\* returned.)
C8_NoAnchorIsSuccess ==
  (pc = "exited" /\ html # <<>> /\ exc = <<>>
     /\ NodesWith(html, anchors[1]) = {} /\ NodesWith(html, anchors[2]) = {}) =>
    /\ rows = <<>>
    /\ exitCode = 0
    /\ IsSuccessSnapshot(jsonFile, <<>>)
    /\ csvFile = HeaderLine

====
